---- MODULE Spec2Model ----
(***************************************************************************)
(* Model of scripts/clean-csv-menu-data-all-columns.py: the field cleaner  *)
(* clean_field, the row loop of process_csv and the command line of main.  *)
(* A string is a sequence of one-character strings; a CSV row is a         *)
(* sequence of strings; a CSV file is a sequence of rows.                  *)
(***************************************************************************)
EXTENDS Integers, Sequences, FiniteSets, TLC

VARIABLES
    \* clean_field applied to one field
    field_value,     \* the argument of clean_field
    cleaned,         \* the value clean_field returned
    cpc,             \* "idle" | "call" | "returned"
    \* the command line run
    pc,              \* position of main / process_csv
    argc,            \* len(sys.argv)
    input_exists,    \* input_file.exists()
    infile,          \* the rows csv.reader yields for the input file
    outfile,         \* the output path on disk: "absent" or the rows it holds
    output_file,     \* main: which path output_file is
    rows,            \* process_csv: rows
    row_num,         \* process_csv: index of the next row of the loop (0-based)
    rows_processed,  \* process_csv: rows_processed
    fields_cleaned,  \* process_csv: fields_cleaned
    stdout,          \* the lines printed, in order
    exit_status      \* the status the process ends with once pc = "exited"

cleanVars == <<field_value, cleaned, cpc>>
csvVars == <<pc, argc, input_exists, infile, outfile, output_file, rows, row_num,
             rows_processed, fields_cleaned, stdout, exit_status>>
vars == <<field_value, cleaned, cpc, pc, argc, input_exists, infile, outfile,
          output_file, rows, row_num, rows_processed, fields_cleaned, stdout,
          exit_status>>

----------------------------------------------------------------------------
(* Characters and the constants of the script *)

Whitespace == {" ", "\t", "\n", "\r", "\f"}
Digits == {"0", "1", "2", "3", "4", "5", "6", "7", "8", "9"}

PlusSmall == <<"P","l","u","s"," ","s","m","a","l","l">>
ThumbUpOutline == <<"T","h","u","m","b"," ","u","p"," ","o","u","t","l","i","n","e">>
MostLiked1 == <<"N","o","."," ","1"," ","m","o","s","t"," ","l","i","k","e","d">>
MostLiked2 == <<"N","o","."," ","2"," ","m","o","s","t"," ","l","i","k","e","d">>
MostLiked3 == <<"N","o","."," ","3"," ","m","o","s","t"," ","l","i","k","e","d">>

UNWANTED_PHRASES == <<PlusSmall, ThumbUpOutline, MostLiked1, MostLiked2, MostLiked3>>

\* A pattern is  open class{min,} close : a literal, a greedy run of one
\* character class, a literal.  Every pattern of the script has this shape,
\* and in each the closing literal is outside the class, so the greedy run
\* never has to give characters back.
PercentPattern == [open |-> <<>>, cls |-> Digits, min |-> 1, close |-> <<"%">>]
CountPattern == [open |-> <<"(">>, cls |-> Digits, min |-> 1, close |-> <<")">>]
REGEX_PATTERNS == <<PercentPattern, CountPattern>>
DupSemicolonPattern == [open |-> <<";">>, cls |-> Whitespace, min |-> 0, close |-> <<";">>]
DupCommaPattern == [open |-> <<",">>, cls |-> Whitespace, min |-> 0, close |-> <<",">>]
SpacesPattern == [open |-> <<>>, cls |-> Whitespace, min |-> 1, close |-> <<>>]
EmptyParensPattern == [open |-> <<"(">>, cls |-> Whitespace, min |-> 0, close |-> <<")">>]

----------------------------------------------------------------------------
(* String operations of Python, as the script uses them *)

Drop(s, n) == SubSeq(s, n + 1, Len(s))

StartsWith(s, p) == Len(s) >= Len(p) /\ SubSeq(s, 1, Len(p)) = p

\* sub in s
Contains(s, sub) == \E i \in 0..(Len(s) - Len(sub)) : SubSeq(s, i + 1, i + Len(sub)) = sub

\* s.replace(old, new): occurrences of old, found left to right without
\* overlap in one pass, are replaced by new
RECURSIVE replace(_, _, _)
replace(s, old, new) ==
    IF Len(s) < Len(old) THEN s
    ELSE IF StartsWith(s, old) THEN new \o replace(Drop(s, Len(old)), old, new)
    ELSE <<Head(s)>> \o replace(Tail(s), old, new)

\* length of the longest prefix of s made of characters of cls
RECURSIVE RunLen(_, _)
RunLen(s, cls) ==
    IF s = <<>> \/ Head(s) \notin cls THEN 0 ELSE 1 + RunLen(Tail(s), cls)

\* length of the match of pat at the start of s, 0 when there is none
MatchLen(s, pat) ==
    IF ~StartsWith(s, pat.open) THEN 0
    ELSE LET o == Len(pat.open)
             r == RunLen(Drop(s, o), pat.cls)
         IN IF r >= pat.min /\ StartsWith(Drop(s, o + r), pat.close)
            THEN o + r + Len(pat.close)
            ELSE 0

\* re.sub(pat, repl, s): the matches, found left to right without overlap in
\* one pass, are replaced by repl
RECURSIVE re_sub(_, _, _)
re_sub(pat, repl, s) ==
    IF s = <<>> THEN s
    ELSE LET m == MatchLen(s, pat)
         IN IF m > 0 THEN repl \o re_sub(pat, repl, Drop(s, m))
            ELSE <<Head(s)>> \o re_sub(pat, repl, Tail(s))

RECURSIVE lstrip(_, _)
lstrip(s, chars) ==
    IF s = <<>> \/ Head(s) \notin chars THEN s ELSE lstrip(Tail(s), chars)

RECURSIVE rstrip(_, _)
rstrip(s, chars) ==
    IF s = <<>> \/ s[Len(s)] \notin chars THEN s
    ELSE rstrip(SubSeq(s, 1, Len(s) - 1), chars)

\* s.strip(chars); s.strip() is strip(s, Whitespace)
strip(s, chars) == rstrip(lstrip(s, chars), chars)

\* s.isspace()
isspace(s) == s # <<>> /\ \A i \in 1..Len(s) : s[i] \in Whitespace

\* x in UNWANTED_PHRASES
InUnwanted(x) == \E k \in 1..Len(UNWANTED_PHRASES) : UNWANTED_PHRASES[k] = x

----------------------------------------------------------------------------
(* clean_field *)

\* for phrase in UNWANTED_PHRASES: cleaned = cleaned.replace(phrase, "")
RECURSIVE RemovePhrases(_, _)
RemovePhrases(s, k) ==
    IF k > Len(UNWANTED_PHRASES) THEN s
    ELSE RemovePhrases(replace(s, UNWANTED_PHRASES[k], <<>>), k + 1)

\* for pattern in REGEX_PATTERNS: cleaned = re.sub(pattern, "", cleaned)
RECURSIVE RemovePatterns(_, _)
RemovePatterns(s, k) ==
    IF k > Len(REGEX_PATTERNS) THEN s
    ELSE RemovePatterns(re_sub(REGEX_PATTERNS[k], <<>>, s), k + 1)

\* mutant: the tags formatting is applied to every field
LooksLikeTagsAlways(fv) == TRUE

\* the test that selects the tags formatting
LooksLikeTags(fv) ==
    \/ Contains(fv, <<";">>)
    \/ \E k \in 1..Len(UNWANTED_PHRASES) : Contains(fv, UNWANTED_PHRASES[k])

\* the tags formatting
FormatTags(c) ==
    LET c1 == re_sub(DupSemicolonPattern, <<";">>, c)
        c2 == re_sub(DupCommaPattern, <<",">>, c1)
        c3 == re_sub(SpacesPattern, <<" ">>, c2)
        c4 == strip(c3, {" ", ";", ","})
    IN strip(re_sub(EmptyParensPattern, <<>>, c4), Whitespace)

\* clean_field after its two early returns
CleanBody(fv) ==
    LET c == RemovePatterns(RemovePhrases(fv, 1), 1)
        f == IF LooksLikeTags(fv) THEN FormatTags(c) ELSE strip(c, Whitespace)
    IN IF f = <<>> \/ isspace(f) THEN <<>> ELSE f

\* mutant: the early return hands back the trimmed phrase instead of ""
clean_field_ReturnsPhrase(fv) ==
    IF fv = <<>> THEN fv
    ELSE IF InUnwanted(strip(fv, Whitespace)) THEN strip(fv, Whitespace)
    ELSE CleanBody(fv)

clean_field(fv) ==
    IF fv = <<>> THEN fv
    ELSE IF InUnwanted(strip(fv, Whitespace)) THEN <<>>
    ELSE CleanBody(fv)

----------------------------------------------------------------------------
(* The inputs of clean_field *)

MaxPieces == 3

Pieces ==
    { <<"a">>, <<" ">>, <<"\t">>, <<";">>, <<",">>, <<"9">>, <<"%">>, <<"(">>, <<")">>,
      <<"a", ";">>, <<";", "a">>,
      <<"P","l","u","s"," ">>, <<"s","m","a","l","l">> }

RECURSIVE Concats(_)
Concats(n) ==
    IF n = 0 THEN {<<>>}
    ELSE LET shorter == Concats(n - 1)
         IN shorter \cup {s \o p : s \in shorter, p \in Pieces}

\* a phrase with at most one piece on each side
PhraseFields ==
    {x \o UNWANTED_PHRASES[k] \o y :
        x \in Pieces \cup {<<>>}, y \in Pieces \cup {<<>>}, k \in 1..Len(UNWANTED_PHRASES)}

\* the fields the documentation of the cleaner gives as examples
ExampleGreat == <<"9","3","%"," ","(","3","0",")"," ","g","r","e","a","t">>
ExampleDup == <<"a",";",";","b">>
ExampleFields == {ExampleGreat, ExampleDup, PlusSmall}

FieldInputs == Concats(MaxPieces) \cup PhraseFields \cup ExampleFields

----------------------------------------------------------------------------
(* The inputs of the command line *)

MaxRows == 2
MaxCols == 2

CsvFields == {<<"a">>, PlusSmall, <<"9", "%", ";", "a">>}

RECURSIVE SeqsUpTo(_, _)
SeqsUpTo(S, n) ==
    IF n = 0 THEN {<<>>}
    ELSE LET shorter == SeqsUpTo(S, n - 1)
         IN shorter \cup {Append(s, x) : s \in shorter, x \in S}

\* a file has no rows, or a first row (the header) and the rows after it
HeaderFields == {<<"a">>, PlusSmall}
HeaderRows == SeqsUpTo(HeaderFields, MaxCols)
CsvRows == SeqsUpTo(CsvFields, MaxCols)
CsvFiles == {<< >>} \cup {<<h>> \o d : h \in HeaderRows, d \in SeqsUpTo(CsvRows, MaxRows - 1)}

OldOutput == <<<<<<"o", "l", "d">>>>>>

----------------------------------------------------------------------------
(* process_csv *)

\* mutant: the test for an empty input is missing
NoRowsNever(rs) == FALSE

\* if not rows
NoRows(rs) == rs = <<>>

\* mutant: the last column is kept
DropLastKeepsAll(row) == row

\* row[:-1] if len(row) > 0 else row
DropLast(row) == IF Len(row) > 0 THEN SubSeq(row, 1, Len(row) - 1) ELSE row

\* mutant: the header row is cleaned too (row_num >= 0)
IsDataRowAlways(n) == n >= 0

\* if row_num > 0: only the rows after the first are cleaned
IsDataRow(n) == n > 0

\* the row written for row n (0-based) of the input
CleanedRow(row, n) ==
    LET cleaned_row == DropLast(row)
    IN IF IsDataRow(n)
       THEN [c \in 1..Len(cleaned_row) |-> clean_field(cleaned_row[c])]
       ELSE cleaned_row

\* header[col_idx] if col_idx < len(header) else f"Column {col_idx + 1}"
ColName(header, c) ==
    IF c <= Len(header) THEN [name |-> header[c]] ELSE [column |-> c]

\* mutant: a field cleaned to "" is not counted
ChangedToText(original_value, cleaned_value) ==
    original_value # cleaned_value /\ cleaned_value # << >>

\* if original_value != cleaned_value
Changed(original_value, cleaned_value) == original_value # cleaned_value

\* the line printed for one changed field; none for an empty original value
ReportLines(header, n, c, original_value, cleaned_value) ==
    IF original_value # <<>> /\ cleaned_value # <<>>
    THEN << [msg |-> "changed", row |-> n + 1, col |-> ColName(header, c),
             from |-> original_value, to |-> cleaned_value] >>
    ELSE IF original_value # <<>> /\ cleaned_value = <<>>
    THEN << [msg |-> "removed", row |-> n + 1, col |-> ColName(header, c),
             from |-> original_value] >>
    ELSE << >>

\* the lines the inner loop prints for columns c..len(cleaned_row), in order
RECURSIVE RowReports(_, _, _, _)
RowReports(header, row, n, c) ==
    IF c > Len(DropLast(row)) THEN << >>
    ELSE LET original_value == row[c]
             cleaned_value == clean_field(original_value)
         IN (IF Changed(original_value, cleaned_value)
             THEN ReportLines(header, n, c, original_value, cleaned_value)
             ELSE << >>)
            \o RowReports(header, row, n, c + 1)

\* the number of fields_cleaned += 1 the inner loop runs for the row
RowChanges(row) ==
    Cardinality({c \in 1..Len(DropLast(row)) : Changed(row[c], clean_field(row[c]))})

----------------------------------------------------------------------------
(* main and process_csv, step by step *)

Exit(status, line) ==
    /\ pc' = "exited"
    /\ exit_status' = status
    /\ stdout' = stdout \o line

\* len(sys.argv) < 2: usage, sys.exit(1)
MainUsage ==
    /\ pc = "main"
    /\ argc < 2
    /\ Exit(1, << [msg |-> "usage"] >>)
    /\ UNCHANGED <<cleanVars, argc, input_exists, infile, outfile, output_file,
                   rows, row_num, rows_processed, fields_cleaned>>

\* not input_file.exists(): sys.exit(1)
MainNotFound ==
    /\ pc = "main"
    /\ argc >= 2
    /\ ~input_exists
    /\ Exit(1, << [msg |-> "not found"] >>)
    /\ UNCHANGED <<cleanVars, argc, input_exists, infile, outfile, output_file,
                   rows, row_num, rows_processed, fields_cleaned>>

\* output_file is argv[2] or derived from the input name; process_csv is called
MainCall ==
    /\ pc = "main"
    /\ argc >= 2
    /\ input_exists
    /\ output_file' = IF argc >= 3 THEN "argv[2]" ELSE "stem_no_images"
    /\ stdout' = Append(stdout, [msg |-> "processing", output |-> output_file'])
    /\ pc' = "read"
    /\ UNCHANGED <<cleanVars, argc, input_exists, infile, outfile,
                   rows, row_num, rows_processed, fields_cleaned, exit_status>>

\* rows = list(csv.reader(infile))
ReadInput ==
    /\ pc = "read"
    /\ rows' = infile
    /\ pc' = "check"
    /\ UNCHANGED <<cleanVars, argc, input_exists, infile, outfile, output_file,
                   row_num, rows_processed, fields_cleaned, stdout, exit_status>>

\* opening or reading the input raises; main catches it: sys.exit(1)
ReadRaises ==
    /\ pc = "read"
    /\ Exit(1, << [msg |-> "error processing"] >>)
    /\ UNCHANGED <<cleanVars, argc, input_exists, infile, outfile, output_file,
                   rows, row_num, rows_processed, fields_cleaned>>

\* if not rows: print the error and return; main then ends
EmptyInput ==
    /\ pc = "check"
    /\ NoRows(rows)
    /\ Exit(0, << [msg |-> "empty"] >>)
    /\ UNCHANGED <<cleanVars, argc, input_exists, infile, outfile, output_file,
                   rows, row_num, rows_processed, fields_cleaned>>

\* open(output_file, 'w'): the file is created or truncated
OpenOutput ==
    /\ pc = "check"
    /\ ~NoRows(rows)
    /\ outfile' = [exists |-> TRUE, rows |-> << >>]
    /\ row_num' = 0
    /\ pc' = "loop"
    /\ UNCHANGED <<cleanVars, argc, input_exists, infile, output_file,
                   rows, rows_processed, fields_cleaned, stdout, exit_status>>

\* open(output_file, 'w') raises; main catches it: sys.exit(1)
OpenRaises ==
    /\ pc = "check"
    /\ ~NoRows(rows)
    /\ Exit(1, << [msg |-> "error processing"] >>)
    /\ UNCHANGED <<cleanVars, argc, input_exists, infile, outfile, output_file,
                   rows, row_num, rows_processed, fields_cleaned>>

\* one turn of  for row_num, row in enumerate(rows)
ProcessRow ==
    /\ pc = "loop"
    /\ row_num < Len(rows)
    /\ LET row == rows[row_num + 1]
           header == rows[1]
       IN IF row # << >>
          THEN /\ outfile' = [outfile EXCEPT !.rows = Append(@, CleanedRow(row, row_num))]
               /\ rows_processed' = rows_processed + 1
               /\ IF IsDataRow(row_num)
                  THEN /\ fields_cleaned' = fields_cleaned + RowChanges(row)
                       /\ stdout' = stdout \o RowReports(header, row, row_num, 1)
                  ELSE UNCHANGED <<fields_cleaned, stdout>>
          ELSE UNCHANGED <<outfile, rows_processed, fields_cleaned, stdout>>
    /\ row_num' = row_num + 1
    /\ UNCHANGED <<cleanVars, pc, argc, input_exists, infile, output_file,
                   rows, exit_status>>

\* writer.writerow raises; main catches it: sys.exit(1)
WriteRaises ==
    /\ pc = "loop"
    /\ row_num < Len(rows)
    /\ rows[row_num + 1] # << >>
    /\ Exit(1, << [msg |-> "error processing"] >>)
    /\ UNCHANGED <<cleanVars, argc, input_exists, infile, outfile, output_file,
                   rows, row_num, rows_processed, fields_cleaned>>

\* the loop is over: the summary is printed, process_csv returns, main ends
Finish ==
    /\ pc = "loop"
    /\ row_num = Len(rows)
    /\ Exit(0, << [msg |-> "summary", rows |-> rows_processed,
                   fields |-> fields_cleaned, output |-> output_file] >>)
    /\ UNCHANGED <<cleanVars, argc, input_exists, infile, outfile, output_file,
                   rows, row_num, rows_processed, fields_cleaned>>

CleanIdle ==
    /\ field_value = << >>
    /\ cleaned = << >>
    /\ cpc = "idle"

Init ==
    /\ CleanIdle
    /\ pc = "main"
    /\ argc \in {1, 2, 3}
    /\ input_exists \in BOOLEAN
    /\ infile \in (IF argc >= 2 /\ input_exists THEN CsvFiles ELSE {<< >>})
    /\ outfile \in {[exists |-> FALSE, rows |-> << >>], [exists |-> TRUE, rows |-> OldOutput]}
    /\ output_file = "unset"
    /\ rows = << >>
    /\ row_num = 0
    /\ rows_processed = 0
    /\ fields_cleaned = 0
    /\ stdout = << >>
    /\ exit_status = 0

Next ==
    \/ MainUsage
    \/ MainNotFound
    \/ MainCall
    \/ ReadInput
    \/ ReadRaises
    \/ EmptyInput
    \/ OpenOutput
    \/ OpenRaises
    \/ ProcessRow
    \/ WriteRaises
    \/ Finish

Spec == Init /\ [][Next]_vars

----------------------------------------------------------------------------
(* clean_field applied to one field *)

CallCleanField ==
    /\ cpc = "call"
    /\ cleaned' = clean_field(field_value)
    /\ cpc' = "returned"
    /\ UNCHANGED <<field_value, csvVars>>

InitClean ==
    /\ field_value \in FieldInputs
    /\ cleaned = << >>
    /\ cpc = "call"
    /\ pc = "idle"
    /\ argc = 1
    /\ input_exists = FALSE
    /\ infile = << >>
    /\ outfile = [exists |-> FALSE, rows |-> << >>]
    /\ output_file = "unset"
    /\ rows = << >>
    /\ row_num = 0
    /\ rows_processed = 0
    /\ fields_cleaned = 0
    /\ stdout = << >>
    /\ exit_status = 0

NextClean == CallCleanField

SpecClean == InitClean /\ [][NextClean]_vars

----------------------------------------------------------------------------
(* Properties of process_csv and main, under Spec *)

Out == outfile.rows

LastLine == IF stdout = << >> THEN "none" ELSE stdout[Len(stdout)].msg

\* process_csv ran to its end: the summary was printed and main ended
Completed == pc = "exited" /\ LastLine = "summary"

\* the indices (1-based) of the input rows that have at least one field
NonEmptyIdx == SelectSeq([i \in 1..Len(rows) |-> i], LAMBDA i : rows[i] # << >>)

\* row i of the input without its last field, position by position
OneFewer(written, row, i) ==
    /\ Len(written) = Len(row) - 1
    /\ \A c \in 1..Len(written) : written[c] \in {row[c], clean_field(row[c])}

\* C1 as stated: every row of the input, an empty one included, has an output
\* row with exactly one column fewer.
C1_EveryRowOneFewer ==
    Completed =>
        /\ Len(Out) = Len(rows)
        /\ \A i \in 1..Len(rows) : OneFewer(Out[i], rows[i], i)

\* C1 as amended: when process_csv runs to its end, every input row that has
\* at least one field has an output row, in order, with exactly one column
\* fewer (its last field removed, the others kept in place), and an input row
\* with no field has no output row.
C1_NonEmptyRowOneFewer ==
    Completed =>
        /\ Len(Out) = Len(NonEmptyIdx)
        /\ \A k \in 1..Len(NonEmptyIdx) :
              OneFewer(Out[k], rows[NonEmptyIdx[k]], NonEmptyIdx[k])

C1_Witness ==
    /\ Completed
    /\ \E i \in 1..Len(rows) : rows[i] = << >>
    /\ \E i \in 1..Len(rows) : Len(rows[i]) > 1
    /\ Len(Out) = 1
    /\ Len(Out[1]) = 1

\* C2 as stated: main ends with status 1 when no input argument is given, when
\* the input file does not exist, when the input file has no rows and when
\* process_csv raises; it ends with status 0 only when processing succeeded.
C2_ExitStatus ==
    pc = "exited" =>
        /\ argc < 2 => exit_status = 1
        /\ argc >= 2 /\ ~input_exists => exit_status = 1
        /\ argc >= 2 /\ input_exists /\ infile = << >> => exit_status = 1
        /\ LastLine = "error processing" => exit_status = 1
        /\ exit_status = 0 => LastLine = "summary"

\* C3: when the input file has no rows, the output path is left as it was at
\* every step of the run, and process_csv, having read no rows, prints the
\* error message.
C3_EmptyInputNoOutput ==
    [][ /\ infile = << >> => outfile' = outfile
        /\ pc = "check" /\ rows = << >> =>
              stdout' = Append(stdout, [msg |-> "empty"]) ]_vars

C3_Witness ==
    /\ pc = "exited"
    /\ argc >= 2 /\ input_exists /\ infile = << >>
    /\ LastLine = "empty"
    /\ outfile = [exists |-> TRUE, rows |-> OldOutput]

ChangedFields ==
    {rc \in (2..Len(rows)) \X (1..MaxCols) :
        /\ rc[2] <= Len(rows[rc[1]]) - 1
        /\ clean_field(rows[rc[1]][rc[2]]) # rows[rc[1]][rc[2]]}

ReportedLines == SelectSeq(stdout, LAMBDA l : l.msg \in {"changed", "removed"})

\* C10: when process_csv runs to its end, the output holds one row for each
\* input row that has a field, in the order of the input, and none for a row
\* without fields; rows_processed is the number of rows written;
\* fields_cleaned is the number of data-row fields whose cleaned value
\* differs from the original, and standard output has one line for each.
C10_RowsAndCounters ==
    Completed =>
        /\ Len(Out) = Len(NonEmptyIdx)
        /\ \A k \in 1..Len(NonEmptyIdx) :
              LET i == NonEmptyIdx[k]
              IN Out[k] = [c \in 1..(Len(rows[i]) - 1) |->
                              IF i = 1 THEN rows[i][c] ELSE clean_field(rows[i][c])]
        /\ rows_processed = Len(Out)
        /\ fields_cleaned = Cardinality(ChangedFields)
        /\ Len(ReportedLines) = fields_cleaned
        /\ \A rc \in ChangedFields :
              \E k \in 1..Len(ReportedLines) :
                  /\ ReportedLines[k].row = rc[1]
                  /\ ReportedLines[k].from = rows[rc[1]][rc[2]]
                  /\ ReportedLines[k].col =
                        IF rc[2] <= Len(rows[1]) THEN [name |-> rows[1][rc[2]]]
                        ELSE [column |-> rc[2]]

C10_Witness ==
    /\ Completed
    /\ rows[1] = << >>
    /\ Len(rows) = 2
    /\ Len(rows[2]) = 2
    /\ rows_processed = 1
    /\ fields_cleaned = 1
    /\ Len(ReportedLines) = 1

----------------------------------------------------------------------------
(* Properties of clean_field, under SpecClean *)

Returned == cpc = "returned"

HasPhrase(s) == \E k \in 1..Len(UNWANTED_PHRASES) : Contains(s, UNWANTED_PHRASES[k])

\* the characters of s at the positions that satisfy Keep, in order
Kept(s, Keep(_)) ==
    LET idx == SelectSeq([i \in 1..Len(s) |-> i], Keep)
    IN [k \in 1..Len(idx) |-> s[idx[k]]]

\* position i of s lies in a percentage token: digits followed by %
InPercent(s, i) ==
    \E a \in 1..i : \E b \in i..Len(s) :
        /\ a < b
        /\ s[b] = "%"
        /\ \A k \in a..(b - 1) : s[k] \in Digits

\* position i of s lies in a parenthesized count: ( digits )
InCount(s, i) ==
    \E a \in 1..i : \E b \in i..Len(s) :
        /\ a + 1 < b
        /\ s[a] = "("
        /\ s[b] = ")"
        /\ \A k \in (a + 1)..(b - 1) : s[k] \in Digits

WithoutPercents(s) == Kept(s, LAMBDA i : ~InPercent(s, i))
WithoutCounts(s) == Kept(s, LAMBDA i : ~InCount(s, i))

\* s from its first to its last character that is not whitespace
Trimmed(s) ==
    LET ink == {i \in 1..Len(s) : s[i] \notin Whitespace}
    IN IF ink = {} THEN << >>
       ELSE SubSeq(s, CHOOSE a \in ink : \A i \in ink : a <= i,
                      CHOOSE b \in ink : \A i \in ink : i <= b)

\* C4: a field that, with the whitespace around it trimmed, is one of the five
\* unwanted phrases is cleaned to the empty string.
C4_OnlyPhraseEmpty ==
    Returned =>
        \A k \in 1..Len(UNWANTED_PHRASES) :
            Trimmed(field_value) = UNWANTED_PHRASES[k] => cleaned = << >>

C4_Witness ==
    /\ Returned
    /\ field_value = <<" ">> \o MostLiked3 \o <<"\t">>
    /\ cleaned = << >>

\* C5: a field with no semicolon and no unwanted phrase is returned with its
\* percentage tokens removed, then the parenthesized counts of what is left
\* removed, then the whitespace at both ends trimmed, and nothing else
\* changed.
C5_PlainFieldTokensRemoved ==
    Returned /\ ~Contains(field_value, <<";">>) /\ ~HasPhrase(field_value) =>
        cleaned = Trimmed(WithoutCounts(WithoutPercents(field_value)))

C5_Witness ==
    /\ Returned
    /\ field_value = ExampleGreat
    /\ cleaned = <<"g", "r", "e", "a", "t">>

\* two semicolons of s with nothing or only whitespace between them
DupSemicolons(s) ==
    \E i \in 1..Len(s) : \E j \in (i + 1)..Len(s) :
        /\ s[i] = ";"
        /\ s[j] = ";"
        /\ \A k \in (i + 1)..(j - 1) : s[k] \in Whitespace

\* C6 as stated: the value returned for a field that contains a semicolon has
\* no two semicolons that are adjacent or separated only by whitespace.
C6_NoDupSemicolons ==
    Returned /\ Contains(field_value, <<";">>) => ~DupSemicolons(cleaned)

\* C7 as stated: the value returned for a field that contains a semicolon or
\* an unwanted phrase neither begins nor ends with a space, a semicolon or a
\* comma, and contains no "()".
C7_TagsStripped ==
    Returned /\ (Contains(field_value, <<";">>) \/ HasPhrase(field_value)) =>
        /\ cleaned # << >> =>
              /\ cleaned[1] \notin {" ", ";", ","}
              /\ cleaned[Len(cleaned)] \notin {" ", ";", ","}
        /\ ~Contains(cleaned, <<"(", ")">>)

\* C8 as stated: the value returned contains none of the five unwanted
\* phrases.
C8_NoPhraseLeft == Returned => ~HasPhrase(cleaned)

====
